---- MODULE Spec2Model ----
(***************************************************************************)
(* Model of helpers/AssetManager.js: the asset record store (db.assets),   *)
(* the upload directory (UPLOAD_DEST) and the operations of the module,    *)
(* each broken into the steps between which other request handlers can     *)
(* run (every database call and every file-system call is asynchronous).   *)
(***************************************************************************)
EXTENDS Integers, Sequences, FiniteSets, TLC

\* ------------------------------------------------------------------ bounds
MaxVersion == 3
MaxRecords == 2
MaxKeys == 2
MaxConcurrent == 1
\* The lists filterNewestAssets is called on directly: their length and versions.
MaxLen == 3
MaxListVersion == 2
\* The records of a store in which chains of copies and restores are followed.
MaxChainRecords == 7
\* The files of a batch passed to addAssets directly.
MaxBatch == 2
\* The answers of getVersionFromTag that one restoreAssets call is followed through.
MaxResolutions == 3

Docs == {"A", "B"}
Names == {"a", "b"}
\* Two contents with the same hash and different sizes: a duplicate needs both.
Content1 == [size |-> 1, fileHash |-> "h", mimetype |-> "image/png"]
Content2 == [size |-> 2, fileHash |-> "h", mimetype |-> "image/png"]
Contents == {Content1, Content2}
\* The file lists of the upload requests: a single file of each name, two files of
\* identical content under different names, and two files of the same name.
FileLists ==
    {<<<<n, Content1>>>> : n \in Names}
        \cup {<< <<"a", Content1>>, <<"b", Content1>> >>, << <<"a", Content1>>, <<"a", Content2>> >>}

\* The positions of the files of a request.
FileIndex == UNION {DOMAIN fs : fs \in FileLists}

\* JavaScript's undefined (a missing field, a missing argument).
Undefined == -1
\* JavaScript truthiness of a number-or-undefined value: 0 and undefined are falsy.
Truthy(x) == x # Undefined /\ x # 0

VARIABLES assets, files, docVersion, nextId, nextKey, up, cp, rs, del, mk,
          arg, ret

\* arg and ret are the argument and the result of a direct call of one of the
\* module's functions on a list of records; no request handler touches them.
call == <<arg, ret>>

vars == <<assets, files, docVersion, nextId, nextKey, up, cp, rs, del, mk, call>>

Idle == [pc |-> "idle"]

\* ret before the call has returned.
NotCalled == [done |-> FALSE]

\* ----------------------------------------------------------- db helpers
\* The elements of a sequence, as a set.
Range(s) == {s[i] : i \in 1..Len(s)}

\* db.assets.find({ webstrateId }).toArray(): the document's records in natural order.
FindByWebstrate(db, webstrateId) ==
    SelectSeq(db, LAMBDA r : r.webstrateId = webstrateId)

\* db.assets.find({ webstrateId, v: { $lte: version } }).toArray()
FindUpTo(db, webstrateId, version) ==
    SelectSeq(db, LAMBDA r : r.webstrateId = webstrateId /\ r.v <= version)

\* The property names an object literal inherits from Object.prototype: for these
\* filteredAssets[name] is a function or an object (truthy) before anything is
\* stored under the name.
ObjectPrototypeKeys ==
    {"constructor", "__proto__", "hasOwnProperty", "isPrototypeOf",
     "propertyIsEnumerable", "toLocaleString", "toString", "valueOf",
     "__defineGetter__", "__defineSetter__", "__lookupGetter__", "__lookupSetter__"}

\* One step of filterNewestAssets' forEach: filteredAssets as the sequence of its
\* values in key-insertion order. For an inherited name filteredAssets[name] is
\* truthy and its v is undefined, undefined < asset.v is false, and the asset is
\* not stored.
FilterStep(acc, asset) ==
    IF asset.originalFileName \in ObjectPrototypeKeys
    THEN acc
    ELSE IF \E i \in 1..Len(acc) : acc[i].originalFileName = asset.originalFileName
    THEN LET i == CHOOSE j \in 1..Len(acc) :
                      acc[j].originalFileName = asset.originalFileName
         IN IF acc[i].v < asset.v THEN [acc EXCEPT ![i] = asset] ELSE acc
    ELSE Append(acc, asset)

RECURSIVE FilterFold(_, _)
FilterFold(s, acc) ==
    IF s = <<>> THEN acc ELSE FilterFold(Tail(s), FilterStep(acc, Head(s)))

filterNewestAssets(s) == FilterFold(s, <<>>)

\* The records a findOne with { sort: { v: -1 } } may return: those of greatest v
\* (the order among equal sort keys is not defined by the database).
NewestOf(S) == {r \in S : \A q \in S : q.v <= r.v}

\* insertMany / insert: the records appended with fresh _ids, in order.
InsertMany(db, recs, firstId) ==
    db \o [i \in 1..Len(recs) |-> [recs[i] EXCEPT !._id = firstId + i - 1]]

\* ---------------------------------------------------------------- reads
\* The projection { _id: 0, _originalId: 0, webstrateId: 0 } of the listings.
Projected(r) ==
    [v |-> r.v, fileName |-> r.fileName, originalFileName |-> r.originalFileName,
     fileSize |-> r.fileSize, mimeType |-> r.mimeType, fileHash |-> r.fileHash,
     deletedAt |-> r.deletedAt]

\* getCurrentAssets: the newest record of each name, the deleted ones left out.
getCurrentAssets(db, webstrateId) ==
    LET found == FindByWebstrate(db, webstrateId)
        projected == [i \in 1..Len(found) |-> Projected(found[i])]
    IN SelectSeq(filterNewestAssets(projected), LAMBDA asset : ~Truthy(asset.deletedAt))

\* getAsset's findOne(query, { sort: { v: -1 } }): the records it may return; the
\* empty set when it returns null. The v filter is added only for a truthy version.
getAssetFindOne(db, webstrateId, assetName, version) ==
    NewestOf({r \in Range(db) :
                /\ r.webstrateId = webstrateId
                /\ r.originalFileName = assetName
                /\ (Truthy(version) => r.v <= version)})

\* What getAsset does with the record found.
getAssetResult(asset, version) ==
    IF Truthy(asset.deletedAt)
          /\ ((Truthy(version) /\ asset.deletedAt <= version) \/ ~Truthy(version))
    THEN [kind |-> "undefined"]
    ELSE [kind |-> "asset", asset |-> asset]

\* getAsset: the outcomes of the call. Reading asset.deletedAt of null throws a
\* TypeError, which rejects the promise of the async function.
getAsset(db, webstrateId, assetName, version) ==
    LET found == getAssetFindOne(db, webstrateId, assetName, version)
    IN IF found = {}
       THEN {[kind |-> "TypeError"]}
       ELSE {getAssetResult(asset, version) : asset \in found}

\* The model runs one upload request at a time and, beside it, MaxConcurrent of the
\* other operations (markAssetAsDeleted, copyAssets, restoreAssets, deleteAssets).
Running(p) == IF p.pc = "idle" THEN 0 ELSE 1
InFlight == Running(cp) + Running(rs) + Running(del) + Running(mk)
CanStart == InFlight < MaxConcurrent

\* No continuation of a settled promise is pending: it runs before the callback of
\* any other handler does.
Ready == mk.pc # "settled"

\* ------------------------------------------------------------------ Init
Init ==
    /\ assets = <<>>
    /\ files = {}
    /\ docVersion = [d \in Docs |-> 1]
    /\ nextId = 1
    /\ nextKey = 1
    /\ up = Idle
    /\ cp = Idle
    /\ rs = Idle
    /\ del = Idle
    /\ mk = Idle
    /\ arg = <<>>
    /\ ret = NotCalled

\* ------------------------------------------------- the document's own ops
\* An operation on the document submitted by a client: the version engine
\* advances the document's version.
DocOp(d) ==
    /\ Ready
    /\ docVersion[d] < MaxVersion
    /\ docVersion' = [docVersion EXCEPT ![d] = @ + 1]
    /\ UNCHANGED <<call, assets, files, nextId, nextKey, up, cp, rs, del, mk>>

\* ---------------------------------------------------------------- upload
\* Multer's file object of a stored file, with the hash added to it. The other
\* fields are the state of the file's duplicate check and of its addAsset call:
\* searchable is addAssets' searchables.includes(asset.originalname), v the version
\* addAsset has fetched, log what the addAsset call has done so far, in order.
NewFile(key, name, content) ==
    [path |-> key, filename |-> key, originalname |-> name,
     size |-> content.size, mimetype |-> content.mimetype,
     fileHash |-> content.fileHash,
     checked |-> FALSE, searchable |-> FALSE, stage |-> "noop", v |-> Undefined,
     log |-> <<>>]

\* upload(req, res, ...): multer stores every file of the request under a fresh
\* name in UPLOAD_DEST; the hashes are then added to the files.
assetUploadHandlerUpload(d, fs) ==
    /\ Ready
    /\ up.pc = "idle"
    /\ nextKey + Len(fs) - 1 <= MaxKeys
    /\ up' = [pc |-> "dedup", webstrateId |-> d, caller |-> "handler",
              called |-> "none",
              files |-> [i \in 1..Len(fs) |->
                            NewFile(nextKey + i - 1, fs[i][1], fs[i][2])]]
    /\ files' = files \cup (nextKey .. (nextKey + Len(fs) - 1))
    /\ nextKey' = nextKey + Len(fs)
    /\ UNCHANGED <<call, assets, docVersion, nextId, cp, rs, del, mk>>

\* findDuplicateAsset(file): the records findOne({ fileSize, fileHash }) may return.
findDuplicateAsset(db, file) ==
    {r \in Range(db) : r.fileSize = file.size /\ r.fileHash = file.fileHash}

\* deleteAssetFromFileSystem(fileName): unlink when the file exists; ok is whether
\* the unlink succeeded.
deleteAssetFromFileSystem(fs, fileName, ok) ==
    IF fileName \in fs /\ ok THEN fs \ {fileName} ELSE fs

\* DuplicateFound without the reuse of the duplicate's storage key.
DuplicateFoundKeepsKey(file, duplicate) ==
    [file EXCEPT !.checked = TRUE]

\* The file after its duplicate check found the record duplicate.
DuplicateFound(file, duplicate) ==
    [file EXCEPT !.checked = TRUE, !.filename = duplicate.fileName]

\* The request once the duplicate check of file i has ended: after the last one,
\* await Promise.all(duplicatePromises) goes on to addAssets, which calls addAsset
\* for every file.
DuplicateChecked(request, i, file) ==
    LET fs == [request.files EXCEPT ![i] = file]
    IN [request EXCEPT !.files = fs,
                       !.pc = IF \A j \in 1..Len(fs) : fs[j].checked
                              THEN "add" ELSE "dedup"]

\* One of duplicatePromises: the duplicate check of file i and what follows it.
assetUploadHandlerDuplicate(i) ==
    /\ Ready
    /\ up.pc = "dedup"
    /\ i \in 1..Len(up.files)
    /\ ~up.files[i].checked
    /\ LET file == up.files[i]
           dups == findDuplicateAsset(assets, file)
       IN IF dups = {}
          THEN /\ up' = DuplicateChecked(up, i, [file EXCEPT !.checked = TRUE])
               /\ files' = files
          ELSE \E duplicate \in dups : \E ok \in BOOLEAN :
               /\ files' = deleteAssetFromFileSystem(files, file.filename, ok)
               /\ up' = DuplicateChecked(up, i, DuplicateFound(file, duplicate))
    /\ UNCHANGED <<call, assets, docVersion, nextId, nextKey, cp, rs, del, mk>>

\* addAsset, first step: documentManager.sendNoOp submits an op to the document.
addAssetSendNoOp(i) ==
    /\ Ready
    /\ up.pc = "add"
    /\ i \in 1..Len(up.files)
    /\ up.files[i].stage = "noop"
    /\ docVersion[up.webstrateId] < MaxVersion
    /\ docVersion' = [docVersion EXCEPT ![up.webstrateId] = @ + 1]
    /\ up' = [up EXCEPT !.files[i].stage = "getver"]
    /\ UNCHANGED <<call, assets, files, nextId, nextKey, cp, rs, del, mk>>

\* addAsset, second step: documentManager.getDocumentVersion.
addAssetGetVersion(i) ==
    /\ Ready
    /\ up.pc = "add"
    /\ i \in 1..Len(up.files)
    /\ up.files[i].stage = "getver"
    /\ up' = [up EXCEPT !.files[i].stage = "insert",
                        !.files[i].v = docVersion[up.webstrateId],
                        !.files[i].log = Append(@, "version")]
    /\ UNCHANGED <<call, assets, files, docVersion, nextId, nextKey, cp, rs, del, mk>>

\* The record addAsset inserts (its _id is given by the insert).
AssetRecord(webstrateId, file) ==
    [_id |-> Undefined, webstrateId |-> webstrateId, v |-> file.v,
     fileName |-> file.filename, originalFileName |-> file.originalname,
     fileSize |-> file.size, mimeType |-> file.mimetype, fileHash |-> file.fileHash,
     deletedAt |-> Undefined, _originalId |-> Undefined]

\* The asset summary addAsset announces and passes to its callback.
AssetSummary(file) ==
    [v |-> file.v, fileName |-> file.originalname, fileSize |-> file.size,
     mimeType |-> file.mimetype, identifier |-> file.filename,
     fileHash |-> file.fileHash]

\* The addAsset call of a file has ended: it has called back (done, failed) or it
\* never will (lost).
Ended(file) == file.stage \in {"done", "failed", "lost"}

\* What Promise.all(assetPromises) makes addAssets do once the promise of a file has
\* settled: "err" when it calls next(err) (the first rejection), "ok" when it calls
\* next(null, ...) (every promise accepted), "none" otherwise.
AddAssetsCalls(request, fs) ==
    IF request.called # "none" THEN "none"
    ELSE IF \E j \in 1..Len(fs) : fs[j].stage = "failed" THEN "err"
    ELSE IF \A j \in 1..Len(fs) : fs[j].stage = "done" THEN "ok"
    ELSE "none"

\* The value addAssets passes to next(null, ...): the summaries in the order of the
\* promises, the single summary itself when there is one.
AddAssetsValue(fs) ==
    IF Len(fs) = 1
    THEN [single |-> TRUE, assets |-> <<AssetSummary(fs[1])>>]
    ELSE [single |-> FALSE, assets |-> [j \in 1..Len(fs) |-> AssetSummary(fs[j])]]

\* The request once file i of it has become file. A request of the upload handler
\* is over when every addAsset call has ended; a direct call of addAssets is kept,
\* with what its addAsset calls have done.
AssetAdded(request, i, file) ==
    LET fs == [request.files EXCEPT ![i] = file]
        calls == AddAssetsCalls(request, fs)
        after == [request EXCEPT !.files = fs,
                                 !.called = IF calls = "none" THEN @ ELSE calls]
    IN IF \A j \in 1..Len(fs) : Ended(fs[j])
       THEN IF request.caller = "handler" THEN Idle ELSE [after EXCEPT !.pc = "over"]
       ELSE after

\* What the callback passed to a direct call of addAssets has received.
Returned(request, i, file) ==
    LET fs == [request.files EXCEPT ![i] = file]
        calls == AddAssetsCalls(request, fs)
    IN IF request.caller = "handler" \/ calls = "none"
       THEN ret
       ELSE IF calls = "err"
       THEN [done |-> TRUE, err |-> TRUE]
       ELSE [done |-> TRUE, err |-> FALSE, value |-> AddAssetsValue(fs)]

\* Inserted without the await of makeSearchable: the asset is announced at once.
InsertedNoAwait(file) ==
    [file EXCEPT !.stage = "done",
                 !.log = @ \o <<"insert", "announce", "callback">>]

\* The file once the callback of db.assets.insert has run without an error, up to
\* the await of makeSearchable (a searchable CSV file) or to the end.
Inserted(file) ==
    IF file.searchable /\ file.mimetype = "text/csv"
    THEN [file EXCEPT !.stage = "index", !.log = Append(@, "insert")]
    ELSE [file EXCEPT !.stage = "done",
                      !.log = @ \o <<"insert", "announce", "callback">>]

\* addAsset, third step: db.assets.insert and its callback, without an error.
addAssetInsert(i) ==
    /\ Ready
    /\ up.pc = "add"
    /\ i \in 1..Len(up.files)
    /\ up.files[i].stage = "insert"
    /\ nextId <= MaxRecords
    /\ assets' = InsertMany(assets, <<AssetRecord(up.webstrateId, up.files[i])>>, nextId)
    /\ nextId' = nextId + 1
    /\ up' = AssetAdded(up, i, Inserted(up.files[i]))
    /\ ret' = Returned(up, i, Inserted(up.files[i]))
    /\ UNCHANGED <<arg, files, docVersion, nextKey, cp, rs, del, mk>>

\* The file once the callback of db.assets.insert has run with an error.
InsertFailed(file) ==
    [file EXCEPT !.stage = "failed", !.log = Append(@, "error")]

\* addAsset, third step, when db.assets.insert fails: next(err).
addAssetInsertFails(i) ==
    /\ Ready
    /\ up.pc = "add"
    /\ i \in 1..Len(up.files)
    /\ up.files[i].stage = "insert"
    /\ up' = AssetAdded(up, i, InsertFailed(up.files[i]))
    /\ ret' = Returned(up, i, InsertFailed(up.files[i]))
    /\ UNCHANGED <<arg, assets, files, docVersion, nextId, nextKey, cp, rs, del, mk>>

\* The file once the await of makeSearchable has resumed.
Indexed(file) ==
    [file EXCEPT !.stage = "done",
                 !.log = @ \o <<"index", "announce", "callback">>]

\* addAsset, fourth step of a searchable CSV file: makeSearchable resolves.
addAssetMakeSearchable(i) ==
    /\ Ready
    /\ up.pc = "add"
    /\ i \in 1..Len(up.files)
    /\ up.files[i].stage = "index"
    /\ up' = AssetAdded(up, i, Indexed(up.files[i]))
    /\ ret' = Returned(up, i, Indexed(up.files[i]))
    /\ UNCHANGED <<arg, assets, files, docVersion, nextId, nextKey, cp, rs, del, mk>>

\* addAsset, fourth step, when makeSearchable rejects: the await throws inside the
\* async callback of the insert, whose promise nobody handles; the asset is not
\* announced and next is never called.
addAssetMakeSearchableFails(i) ==
    /\ Ready
    /\ up.pc = "add"
    /\ i \in 1..Len(up.files)
    /\ up.files[i].stage = "index"
    /\ up' = AssetAdded(up, i, [up.files[i] EXCEPT !.stage = "lost"])
    /\ ret' = Returned(up, i, [up.files[i] EXCEPT !.stage = "lost"])
    /\ UNCHANGED <<arg, assets, files, docVersion, nextId, nextKey, cp, rs, del, mk>>

\* ---------------------------------------------------- markAssetAsDeleted
\* markAssetAsDeleted, first step: documentManager.getDocumentVersion.
markAssetAsDeletedGetVersion(d, n) ==
    /\ mk.pc = "idle"
    /\ CanStart
    /\ mk' = [pc |-> "update", webstrateId |-> d, assetName |-> n,
              version |-> docVersion[d]]
    /\ UNCHANGED <<call, assets, files, docVersion, nextId, nextKey, up, cp, rs, del>>

\* The update { $set: { deletedAt: version } } of findOneAndUpdate.
SetDeletedAt(db, id, version) ==
    [i \in 1..Len(db) |->
        IF db[i]._id = id THEN [db[i] EXCEPT !.deletedAt = version] ELSE db[i]]

\* markAssetAsDeletedTargets with a filter that leaves out the webstrateId.
markAssetAsDeletedTargetsAnyWebstrate(db, webstrateId, assetName) ==
    NewestOf({r \in Range(db) : r.originalFileName = assetName})

\* The records findOneAndUpdate({ webstrateId, originalFileName }, ..., { sort: { v: -1 } })
\* may pick.
markAssetAsDeletedTargets(db, webstrateId, assetName) ==
    NewestOf({r \in Range(db) :
                r.webstrateId = webstrateId /\ r.originalFileName = assetName})

\* markAssetAsDeleted, second step: findOneAndUpdate and its callback. res.value is
\* the record found, null when there is none.
markAssetAsDeletedUpdate ==
    /\ mk.pc = "update"
    /\ LET targets == markAssetAsDeletedTargets(assets, mk.webstrateId, mk.assetName)
       IN IF targets = {}
          THEN /\ assets' = assets
               /\ mk' = [pc |-> "settled", outcome |-> "rejected", value |-> Undefined]
          ELSE \E r \in targets :
               /\ assets' = SetDeletedAt(assets, r._id, mk.version)
               /\ mk' = [pc |-> "settled", outcome |-> "resolved", value |-> r._id]
    /\ UNCHANGED <<call, files, docVersion, nextId, nextKey, up, cp, rs, del>>

\* The caller's continuation of the settled promise (its then or catch), which runs
\* before any other handler does.
markAssetAsDeletedSettled ==
    /\ mk.pc = "settled"
    /\ mk' = Idle
    /\ UNCHANGED <<call, assets, files, docVersion, nextId, nextKey, up, cp, rs, del>>

\* ------------------------------------------------------------ copyAssets
\* CopyOf with the clone given a storage key of its own.
CopyOfWithOwnKey(asset, toWebstrateId) ==
    [asset EXCEPT !.v = 0, !.webstrateId = toWebstrateId,
                  !.fileName = asset.fileName + 1,
                  !._originalId = IF Truthy(asset._originalId)
                                  THEN asset._originalId ELSE asset._id,
                  !._id = Undefined]

\* The clone copyAssets makes of a record found.
CopyOf(asset, toWebstrateId) ==
    [asset EXCEPT !.v = 0, !.webstrateId = toWebstrateId,
                  !._originalId = IF Truthy(asset._originalId)
                                  THEN asset._originalId ELSE asset._id,
                  !._id = Undefined]

\* copyAssets, first step: the find and its callback, up to the call of insertMany.
copyAssetsFind(fromWebstrateId, toWebstrateId, version) ==
    /\ Ready
    /\ cp.pc = "idle"
    /\ CanStart
    /\ LET found == filterNewestAssets(FindUpTo(assets, fromWebstrateId, version))
       IN /\ cp' = IF Len(found) = 0
                   THEN Idle
                   ELSE [pc |-> "insert",
                         assets |-> [i \in 1..Len(found) |->
                                        CopyOf(found[i], toWebstrateId)]]
    /\ UNCHANGED <<call, assets, files, docVersion, nextId, nextKey, up, rs, del, mk>>

\* copyAssets, second step: insertMany, in a store that takes _ids up to limit.
copyAssetsInsertManyUpTo(limit) ==
    /\ Ready
    /\ cp.pc = "insert"
    /\ nextId + Len(cp.assets) - 1 <= limit
    /\ assets' = InsertMany(assets, cp.assets, nextId)
    /\ nextId' = nextId + Len(cp.assets)
    /\ cp' = Idle
    /\ UNCHANGED <<call, files, docVersion, nextKey, up, rs, del, mk>>

copyAssetsInsertMany == copyAssetsInsertManyUpTo(MaxRecords)

\* --------------------------------------------------------- restoreAssets
\* The clone restoreAssets makes of a record found (found without its _id).
RestoredOf(asset, newVersion) ==
    [asset EXCEPT !.v = newVersion, !._id = Undefined]

\* restoreAssets from its query on: the find and its callback. The call follows
\* the op that restores the document, which takes it to newVersion.
restoreAssetsQuery(webstrateId, version) ==
    /\ docVersion[webstrateId] < MaxVersion
    /\ LET newVersion == docVersion[webstrateId] + 1
           found == FindUpTo(assets, webstrateId, version)
           newest == filterNewestAssets(found)
       IN /\ docVersion' = [docVersion EXCEPT ![webstrateId] = newVersion]
          /\ rs' = IF Len(found) = 0
                   THEN Idle
                   ELSE [pc |-> "insert",
                         assets |-> [i \in 1..Len(newest) |->
                                        RestoredOf(newest[i], newVersion)]]
    /\ UNCHANGED <<call, assets, files, nextId, nextKey, up, cp, del, mk>>

\* restoreAssets with a version, first step.
restoreAssetsFind(webstrateId, version) ==
    /\ Ready
    /\ rs.pc = "idle"
    /\ CanStart
    /\ restoreAssetsQuery(webstrateId, version)

\* restoreAssets with a tag and no version, first step: !version holds and
\* documentManager.getVersionFromTag is called. resolutions counts the answers the
\* call has had from it.
restoreAssetsTag(webstrateId) ==
    /\ Ready
    /\ rs.pc = "idle"
    /\ CanStart
    /\ rs' = [pc |-> "tag", webstrateId |-> webstrateId, resolutions |-> 0]
    /\ UNCHANGED <<call, assets, files, docVersion, nextId, nextKey, up, cp, del, mk>>

\* The callback of getVersionFromTag: with an error next(err) is called; otherwise
\* restoreAssets calls itself with the version, and that call asks for the tag's
\* version again when !version holds of it.
restoreAssetsGetVersionFromTag(err, version) ==
    /\ Ready
    /\ rs.pc = "tag"
    /\ rs.resolutions < MaxResolutions
    /\ IF err
       THEN /\ rs' = Idle
            /\ UNCHANGED <<call, assets, files, docVersion, nextId, nextKey, up, cp, del, mk>>
       ELSE IF ~Truthy(version)
       THEN /\ rs' = [rs EXCEPT !.resolutions = @ + 1]
            /\ UNCHANGED <<call, assets, files, docVersion, nextId, nextKey, up, cp, del, mk>>
       ELSE restoreAssetsQuery(rs.webstrateId, version)

\* restoreAssets, second step: insertMany, in a store that takes _ids up to limit.
restoreAssetsInsertManyUpTo(limit) ==
    /\ Ready
    /\ rs.pc = "insert"
    /\ nextId + Len(rs.assets) - 1 <= limit
    /\ assets' = InsertMany(assets, rs.assets, nextId)
    /\ nextId' = nextId + Len(rs.assets)
    /\ rs' = Idle
    /\ UNCHANGED <<call, files, docVersion, nextKey, up, cp, del, mk>>

restoreAssetsInsertMany == restoreAssetsInsertManyUpTo(MaxRecords)

\* ---------------------------------------------------------- deleteAssets
\* deleteAssets, first step: the find; assets becomes the list of file names.
deleteAssetsFind(webstrateId) ==
    /\ Ready
    /\ del.pc = "idle"
    /\ CanStart
    /\ del' = [pc |-> "distinct", webstrateId |-> webstrateId,
               assets |-> {r.fileName : r \in Range(FindByWebstrate(assets, webstrateId))},
               assetsToBeDeleted |-> {}, unlinked |-> {}]
    /\ UNCHANGED <<call, assets, files, docVersion, nextId, nextKey, up, cp, rs, mk>>

\* db.assets.distinct('fileName', { fileName: { $in: assets }, webstrateId: { $ne } })
AssetsBeingUsed(db, names, webstrateId) ==
    {r.fileName : r \in {q \in Range(db) :
                            q.fileName \in names /\ q.webstrateId # webstrateId}}

\* deleteAssets, second step: the distinct and its callback, which starts an unlink
\* for every file no other webstrate uses.
deleteAssetsDistinct ==
    /\ Ready
    /\ del.pc = "distinct"
    /\ del' = [del EXCEPT !.pc = "unlink",
                          !.assets = {},
                          !.assetsToBeDeleted =
                              del.assets \ AssetsBeingUsed(assets, del.assets, del.webstrateId)]
    /\ UNCHANGED <<call, assets, files, docVersion, nextId, nextKey, up, cp, rs, mk>>

\* One fs.unlink of deleteAssets completes: with an error (printed) or without.
deleteAssetsUnlink(asset, ok) ==
    /\ Ready
    /\ del.pc = "unlink"
    /\ asset \in del.assetsToBeDeleted
    /\ files' = IF ok THEN files \ {asset} ELSE files
    /\ del' = [del EXCEPT !.assetsToBeDeleted = @ \ {asset},
                          !.unlinked = IF ok /\ asset \in files
                                       THEN @ \cup {asset} ELSE @]
    /\ UNCHANGED <<call, assets, docVersion, nextId, nextKey, up, cp, rs, mk>>

\* deleteAssets, last step: Promise.all(promises).then, deleteMany({ webstrateId }).
deleteAssetsDeleteMany ==
    /\ Ready
    /\ del.pc = "unlink"
    /\ del.assetsToBeDeleted = {}
    /\ assets' = SelectSeq(assets, LAMBDA r : r.webstrateId # del.webstrateId)
    /\ del' = Idle
    /\ UNCHANGED <<call, files, docVersion, nextId, nextKey, up, cp, rs, mk>>

\* ------------------------------------------------------------------ Next
Next ==
    \/ \E d \in Docs : DocOp(d)
    \/ \E d \in Docs : \E fs \in FileLists : assetUploadHandlerUpload(d, fs)
    \/ \E i \in FileIndex : assetUploadHandlerDuplicate(i)
    \/ \E i \in FileIndex : addAssetSendNoOp(i)
    \/ \E i \in FileIndex : addAssetGetVersion(i)
    \/ \E i \in FileIndex : addAssetInsert(i)
    \/ \E d \in Docs : \E n \in Names : markAssetAsDeletedGetVersion(d, n)
    \/ markAssetAsDeletedUpdate
    \/ markAssetAsDeletedSettled
    \/ \E f \in Docs : \E t \in Docs \ {f} : \E v \in 0..docVersion[f] :
          copyAssetsFind(f, t, v)
    \/ copyAssetsInsertMany
    \/ \E d \in Docs : \E v \in 1..docVersion[d] : restoreAssetsFind(d, v)
    \/ restoreAssetsInsertMany
    \/ \E d \in Docs : deleteAssetsFind(d)
    \/ deleteAssetsDistinct
    \/ \E k \in 1..MaxKeys : \E ok \in BOOLEAN : deleteAssetsUnlink(k, ok)
    \/ deleteAssetsDeleteMany

Spec == Init /\ [][Next]_vars

\* ------------------------------------------- filterNewestAssets, called directly
\* The names of the records of a list: two ordinary names and one that an object
\* literal inherits from Object.prototype.
ListNames == {"a", "b", "constructor"}

\* The lists of records filterNewestAssets is called on (_id tells the records of a
\* list apart).
Lists ==
    UNION {{[i \in 1..len |-> [_id |-> i, originalFileName |-> f[i][1], v |-> f[i][2]]] :
               f \in [1..len -> ListNames \X (0..MaxListVersion)]} :
           len \in 0..MaxLen}

\* A list of records is about to be passed to filterNewestAssets.
FilterInit ==
    /\ assets = <<>>
    /\ files = {}
    /\ docVersion = [d \in Docs |-> 1]
    /\ nextId = 1
    /\ nextKey = 1
    /\ up = Idle
    /\ cp = Idle
    /\ rs = Idle
    /\ del = Idle
    /\ mk = Idle
    /\ arg \in Lists
    /\ ret = NotCalled

\* The call filterNewestAssets(arg) returns.
filterNewestAssetsCall ==
    /\ ~ret.done
    /\ ret' = [done |-> TRUE, value |-> filterNewestAssets(arg)]
    /\ UNCHANGED <<assets, files, docVersion, nextId, nextKey, up, cp, rs, del, mk, arg>>

SpecFilter == FilterInit /\ [][filterNewestAssetsCall]_vars

\* -------------------------------------------- chains of copies and restores
\* The record addAsset has inserted for the file of the given name and storage key.
UploadedRecord(id, webstrateId, name, key) ==
    [AssetRecord(webstrateId,
                 [NewFile(key, name, Content1) EXCEPT !.v = 2]) EXCEPT !._id = id]

\* The _ids of the uploaded records of ChainInit.
ChainUploads == {1, 2}

\* Two uploads have completed: a to document A and b to document B, each document
\* then at version 2; or the first of them alone.
ChainInit ==
    /\ assets \in {<<UploadedRecord(1, "A", "a", 1)>>,
                   <<UploadedRecord(1, "A", "a", 1), UploadedRecord(2, "B", "b", 2)>>}
    /\ files = {assets[i].fileName : i \in DOMAIN assets}
    /\ docVersion = [d \in Docs |-> 2]
    /\ nextId = 3
    /\ nextKey = 3
    /\ up = Idle
    /\ cp = Idle
    /\ rs = Idle
    /\ del = Idle
    /\ mk = Idle
    /\ arg = <<>>
    /\ ret = NotCalled

\* A document that holds copied records: a target of copyAssets, from which a
\* chain of copies can go on.
Intermediate(d) ==
    \E r \in Range(assets) : r.webstrateId = d /\ Truthy(r._originalId)

\* Copies between the documents, and restores of the intermediate documents.
ChainNext ==
    \/ \E f \in Docs : \E t \in Docs \ {f} : \E v \in 0..docVersion[f] :
          copyAssetsFind(f, t, v)
    \/ copyAssetsInsertManyUpTo(MaxChainRecords)
    \/ \E d \in Docs : \E v \in 1..docVersion[d] :
          Intermediate(d) /\ restoreAssetsFind(d, v)
    \/ restoreAssetsInsertManyUpTo(MaxChainRecords)

SpecChain == ChainInit /\ [][ChainNext]_vars

\* ---------------------------------------------------- addAssets, called directly
\* The content of a CSV file.
ContentCsv == [size |-> 3, fileHash |-> "c", mimetype |-> "text/csv"]

\* The batches addAssets is called on: the webstrateId, the files as multer has
\* stored them (under the keys 1, 2, ...) and the names to be made searchable.
Batches ==
    UNION {{[webstrateId |-> "A",
             assets |-> [i \in 1..n |-> NewFile(i, f[i][1], f[i][2])],
             searchables |-> names] :
               f \in [1..n -> Names \X {Content1, ContentCsv}], names \in SUBSET Names} :
           n \in 1..MaxBatch}

\* The files of a batch are in the upload directory and addAssets is about to be
\* called on it.
AddInit ==
    /\ arg \in Batches
    /\ ret = NotCalled
    /\ assets = <<>>
    /\ files = DOMAIN arg.assets
    /\ docVersion = [d \in Docs |-> 1]
    /\ nextId = 1
    /\ nextKey = Len(arg.assets) + 1
    /\ up = Idle
    /\ cp = Idle
    /\ rs = Idle
    /\ del = Idle
    /\ mk = Idle

\* addAssets(webstrateId, assets, searchables, source, next): an addAsset call is
\* started for every file of the batch.
addAssetsCall ==
    /\ up.pc = "idle"
    /\ up' = [pc |-> "add", webstrateId |-> arg.webstrateId, caller |-> "direct",
              called |-> "none",
              files |-> [i \in DOMAIN arg.assets |->
                            [arg.assets[i] EXCEPT
                                !.checked = TRUE,
                                !.searchable = arg.assets[i].originalname
                                                   \in arg.searchables]]]
    /\ UNCHANGED <<call, assets, files, docVersion, nextId, nextKey, cp, rs, del, mk>>

AddNext ==
    \/ addAssetsCall
    \/ \E i \in 1..MaxBatch : addAssetSendNoOp(i)
    \/ \E i \in 1..MaxBatch : addAssetGetVersion(i)
    \/ \E i \in 1..MaxBatch : addAssetInsert(i)
    \/ \E i \in 1..MaxBatch : addAssetInsertFails(i)
    \/ \E i \in 1..MaxBatch : addAssetMakeSearchable(i)
    \/ \E i \in 1..MaxBatch : addAssetMakeSearchableFails(i)

SpecAdd == AddInit /\ [][AddNext]_vars

\* ------------------------------------------------------ restoreAssets by tag
\* Restores by tag of documents that hold uploaded assets, while the documents'
\* versions advance. The version engine answers with any version of the document,
\* 0 included, or with an error.
TagNext ==
    \/ \E d \in Docs : DocOp(d)
    \/ \E d \in Docs : restoreAssetsTag(d)
    \/ \E err \in BOOLEAN : \E v \in 0..MaxVersion :
          /\ rs.pc = "tag"
          /\ v <= docVersion[rs.webstrateId]
          /\ restoreAssetsGetVersionFromTag(err, v)
    \/ restoreAssetsInsertManyUpTo(MaxChainRecords)

SpecTag == ChainInit /\ [][TagNext]_vars

\* ---------------------------------------------------------------- claims
\* The versions a query can name.
Versions == 0..MaxVersion

\* The records of a logical name of a document.
RecordsOf(db, d, n) ==
    {r \in Range(db) : r.webstrateId = d /\ r.originalFileName = n}

\* The records of (d, n) current as of version V: those of greatest v <= V.
ResolvedAt(db, d, n, V) == NewestOf({r \in RecordsOf(db, d, n) : r.v <= V})

\* The records present in d as of version V under the deletion-visibility rule:
\* resolved at V and not deleted at a version <= V.
PresentRecordsAt(db, d, V) ==
    UNION {{r \in ResolvedAt(db, d, n, V) :
               r.deletedAt = Undefined \/ r.deletedAt > V} : n \in Names}

PresentAt(db, d, V) == {r.originalFileName : r \in PresentRecordsAt(db, d, V)}

\* C1: no step removes a blob from the upload directory while a record of a
\* document other than the one being deleted references its key.
C1_NoBlobDeletedWhileReferenced ==
    [][\A k \in files \ files' : \A r \in Range(assets) :
          r.fileName = k =>
              /\ del.pc = "unlink"
              /\ k \in del.assetsToBeDeleted
              /\ r.webstrateId = del.webstrateId]_vars

\* The step in which markAssetAsDeleted's findOneAndUpdate commits on a record.
MarkCommitted ==
    mk.pc = "update" /\ mk'.pc = "settled" /\ mk'.outcome = "resolved"

\* C2: once markAssetAsDeleted(doc, name) has committed at version d, getAsset
\* gives no asset for any V >= d nor without a version, and for every V < d at
\* which a record with v <= V exists it gives the record current as of V.
C2_DeletedFromItsVersionOn ==
    [][MarkCommitted =>
          LET doc == mk.webstrateId
              name == mk.assetName
              d == mk.version
          IN /\ \A V \in Versions : V >= d =>
                    \A res \in getAsset(assets', doc, name, V) : res.kind # "asset"
             /\ \A res \in getAsset(assets', doc, name, Undefined) : res.kind # "asset"
             /\ \A V \in Versions :
                    (V < d /\ ResolvedAt(assets', doc, name, V) # {}) =>
                        \A res \in getAsset(assets', doc, name, V) :
                            /\ res.kind = "asset"
                            /\ res.asset \in ResolvedAt(assets', doc, name, V)]_vars

\* C3: for every V >= 0, getAsset(doc, name, V) resolves to the record of greatest
\* v <= V and never to one with v > V; without a version, to the record of
\* greatest v.
C3_ResolvesGreatestUpToVersion ==
    \A d \in Docs : \A n \in Names :
        /\ \A V \in Versions :
              getAssetFindOne(assets, d, n, V) = ResolvedAt(assets, d, n, V)
        /\ getAssetFindOne(assets, d, n, Undefined) = NewestOf(RecordsOf(assets, d, n))

\* C8: a record changes only by its deletedAt going from unset to set: no step
\* changes another field, and none changes a deletedAt that is set.
C8_DeletedAtSetOnce ==
    [][\A r \in Range(assets) : \A q \in Range(assets') :
          r._id = q._id =>
              /\ [q EXCEPT !.deletedAt = r.deletedAt] = r
              /\ (r.deletedAt # Undefined => q.deletedAt = r.deletedAt)]_vars

\* C10: getAsset for a name with no record, or none with v <= V, gives an explicit
\* absent result and never ends in an error.
C10_GetAssetAbsentIsNoError ==
    \A d \in Docs : \A n \in Names : \A V \in Versions \cup {Undefined} :
        \A res \in getAsset(assets, d, n, V) :
            /\ res.kind # "TypeError"
            /\ (V # Undefined /\ ResolvedAt(assets, d, n, V) = {}) => res.kind = "undefined"
            /\ (V = Undefined /\ RecordsOf(assets, d, n) = {}) => res.kind = "undefined"

\* The names and the storage keys of a listing.
NamesOf(listing) == {listing[i].originalFileName : i \in DOMAIN listing}
NamesAndKeysOf(listing) ==
    {<<listing[i].originalFileName, listing[i].fileName>> : i \in DOMAIN listing}

\* C4: copyAssets(A, B, v) into an empty B, followed by getCurrentAssets(B), yields
\* exactly the names present in A as of v (the names deleted only after v
\* included), one record per name, each with v = 0.
C4_CopyYieldsPresentSet ==
    [][\A f \in Docs : \A t \in Docs \ {f} : \A v \in 0..docVersion[f] :
          (/\ copyAssetsFind(f, t, v)
           /\ cp'.pc = "insert"
           /\ FindByWebstrate(assets, t) = <<>>) =>
              LET after == InsertMany(assets, cp'.assets, nextId)
                  current == getCurrentAssets(after, t)
              IN /\ NamesOf(current) = PresentAt(assets, f, v)
                 /\ Cardinality(NamesOf(current)) = Len(current)
                 /\ \A i \in DOMAIN current : current[i].v = 0]_vars

\* C5: after restoreAssets(doc, oldV, newV) with oldV < newV, getCurrentAssets(doc)
\* is the set of assets present in doc as of oldV: the same names with the same
\* storage keys.
C5_RestoreYieldsOldSet ==
    [][\A d \in Docs : \A v \in 1..docVersion[d] :
          restoreAssetsFind(d, v) =>
              LET after == IF rs'.pc = "insert"
                           THEN InsertMany(assets, rs'.assets, nextId)
                           ELSE assets
              IN NamesAndKeysOf(getCurrentAssets(after, d))
                     = {<<r.originalFileName, r.fileName>> :
                            r \in PresentRecordsAt(assets, d, v)}]_vars

DuplicateCheckOf(i) ==
    /\ up.pc = "dedup"
    /\ i \in DOMAIN up.files
    /\ ~up.files[i].checked
    /\ up'.pc # "idle"
    /\ up'.files[i].checked

\* The step that inserts the record of file i of the request.
InsertOf(i) ==
    /\ up.pc = "add"
    /\ i \in DOMAIN up.files
    /\ up.files[i].stage = "insert"
    /\ Len(assets') = Len(assets) + 1
    /\ (up'.pc = "idle" \/ up'.files[i].stage = "done")

C7_DeleteAssetsKeepsSharedBlobs ==
    [][(del.pc = "unlink" /\ del'.pc = "idle") =>
          /\ FindByWebstrate(assets', del.webstrateId) = <<>>
          /\ assets' = SelectSeq(assets, LAMBDA r : r.webstrateId # del.webstrateId)
          /\ \A r \in Range(assets') : r.fileName \notin del.unlinked]_vars

C11_OnePerNameWithMaxV ==
    ret.done =>
        LET out == ret.value
        IN /\ {out[i].originalFileName : i \in DOMAIN out}
                  = {arg[j].originalFileName : j \in DOMAIN arg}
           /\ \A i \in DOMAIN out : \A k \in DOMAIN out :
                  out[i].originalFileName = out[k].originalFileName => i = k
           /\ \A i \in DOMAIN out :
                  /\ out[i] \in Range(arg)
                  /\ \A j \in DOMAIN arg :
                        arg[j].originalFileName = out[i].originalFileName
                            => arg[j].v <= out[i].v

\* C12: no two records of the same document with the same originalFileName have
\* the same v.
C12_VersionsOfANameDistinct ==
    \A i \in DOMAIN assets : \A j \in DOMAIN assets :
        (/\ assets[i].webstrateId = assets[j].webstrateId
         /\ assets[i].originalFileName = assets[j].originalFileName
         /\ assets[i].v = assets[j].v) => i = j

\* C13: every record of the store references a storage key whose blob is in the
\* upload directory; the records of a document whose deleteAssets is removing its
\* blobs, which its deleteMany is about to remove, are left aside.
C13_NoDanglingRecord ==
    \A r \in Range(assets) :
        \/ r.fileName \in files
        \/ del.pc = "unlink" /\ r.webstrateId = del.webstrateId

\* C14: after any chain of copyAssets calls, with restoreAssets on the
\* intermediate documents, the _originalId of every copied record identifies an
\* uploaded record, which has no _originalId, and never a copy or a restore clone.
C14_OriginalIdIsRootUpload ==
    \A r \in Range(assets) :
        Truthy(r._originalId) =>
            /\ r._originalId \in ChainUploads
            /\ \E q \in Range(assets) :
                  q._id = r._originalId /\ q._originalId = Undefined

\* s is an initial part of t.
IsPrefix(s, t) == Len(s) <= Len(t) /\ \A k \in 1..Len(s) : s[k] = t[k]

\* The order of the steps of addAsset for a file, as C15 gives it: with the
\* indexing for a searchable CSV file only; and the order when the insert fails.
StepsInOrder(file) ==
    IF file.searchable /\ file.mimetype = "text/csv"
    THEN <<"version", "insert", "index", "announce", "callback">>
    ELSE <<"version", "insert", "announce", "callback">>

\* The records of the store that an addAsset call on the file has inserted.
RecordsOfFile(file) ==
    {k \in DOMAIN assets : /\ assets[k].fileName = file.filename
                           /\ assets[k].originalFileName = file.originalname}

\* C15: in every execution of addAsset the version is fetched, then exactly one
\* record is inserted with v the fetched version, then (searchable CSV only) the
\* indexing completes, then the asset is announced, then the callback is invoked;
\* when the insert fails there is an error callback, no record and no announcement.
C15_AddAssetStepsInOrder ==
    up.pc \in {"add", "over"} =>
        \A i \in DOMAIN up.files :
            LET file == up.files[i]
                inserted == \E k \in DOMAIN file.log : file.log[k] = "insert"
            IN /\ \/ IsPrefix(file.log, StepsInOrder(file))
                  \/ file.log = <<"version", "error">>
               /\ inserted => \E k \in RecordsOfFile(file) : assets[k].v = file.v
               /\ Cardinality(RecordsOfFile(file)) = IF inserted THEN 1 ELSE 0

\* The addAsset call of a searchable CSV file has gone through all of its steps.
C15_Witness ==
    /\ up.pc \in {"add", "over"}
    /\ \E i \in DOMAIN up.files :
          up.files[i].log = <<"version", "insert", "index", "announce", "callback">>

\* C16: when every admission of a batch has ended, the callback of addAssets has
\* been invoked with an error if and only if an admission failed, and otherwise with
\* the summaries of the files in input order; the record of every admission that
\* has inserted one is in the store.
C16_BatchCallback ==
    up.pc = "over" =>
        LET fs == up.files
            failed == \E j \in DOMAIN fs : fs[j].stage # "done"
        IN /\ ret.done
           /\ ret.err <=> failed
           /\ ~failed => ret.value.assets = [j \in DOMAIN fs |-> AssetSummary(fs[j])]
           /\ \A j \in DOMAIN fs :
                 (\E k \in DOMAIN fs[j].log : fs[j].log[k] = "insert")
                     => RecordsOfFile(fs[j]) # {}

\* C17: restoreAssets called with a tag and no version performs one tag-to-version
\* resolution and then proceeds with the restore, whatever version the tag resolves
\* to: it never waits for a second answer of the version engine.
C17_OneTagResolution ==
    rs.pc = "tag" => rs.resolutions = 0

\* A step of markAssetAsDeleted, copyAssets or restoreAssets.
LifecycleStep ==
    \/ mk.pc # mk'.pc
    \/ cp.pc # cp'.pc
    \/ rs.pc # rs'.pc

\* The clone c has the logical name, the storage key, the size and the hash of a
\* record of the store.
ClonedFromARecord(c) ==
    \E q \in Range(assets) :
        /\ q.originalFileName = c.originalFileName
        /\ q.fileName = c.fileName
        /\ q.fileSize = c.fileSize
        /\ q.fileHash = c.fileHash

\* C18: markAssetAsDeleted, copyAssets and restoreAssets create and remove no blob
\* and remove no record; the records of the store keep all of their fields but
\* deletedAt (their v and webstrateId among them); the clones copyAssets and
\* restoreAssets make have the fileName, fileSize and fileHash of a record of the
\* store at the time they read it, and the records they insert are those clones.
C18_LifecycleFrame ==
    [][LifecycleStep =>
          /\ files' = files
          /\ Len(assets') >= Len(assets)
          /\ \A i \in DOMAIN assets :
                [assets'[i] EXCEPT !.deletedAt = assets[i].deletedAt] = assets[i]
          /\ (cp.pc # "insert" /\ cp'.pc = "insert") => \A k \in DOMAIN cp'.assets : ClonedFromARecord(cp'.assets[k])
          /\ (rs.pc # "insert" /\ rs'.pc = "insert") => \A k \in DOMAIN rs'.assets : ClonedFromARecord(rs'.assets[k])
          /\ (cp.pc = "insert" /\ cp'.pc = "idle") =>
                /\ Len(assets') = Len(assets) + Len(cp.assets)
                /\ \A k \in DOMAIN cp.assets :
                      [assets'[Len(assets) + k] EXCEPT !._id = Undefined] = cp.assets[k]
          /\ (rs.pc = "insert" /\ rs'.pc = "idle") =>
                /\ Len(assets') = Len(assets) + Len(rs.assets)
                /\ \A k \in DOMAIN rs.assets :
                      [assets'[Len(assets) + k] EXCEPT !._id = Undefined] = rs.assets[k]]_vars

\* A copy has been inserted and a record has been marked as deleted.
C18_Witness ==
    /\ \E r \in Range(assets) : Truthy(r._originalId)
    /\ \E r \in Range(assets) : r.deletedAt # Undefined
    /\ cp.pc = "idle"
    /\ mk.pc = "idle"

\* C19: every record whose deletedAt is set has deletedAt >= v.
C19_DeletedNotBeforeVisible ==
    \A r \in Range(assets) : r.deletedAt # Undefined => r.deletedAt >= r.v

\* C20: a name is listed by getCurrentAssets(doc) if and only if getAsset(doc, name)
\* with no version returns a record, and then both are the same record (same v and
\* storage key).
C20_CurrentViewsAgree ==
    \A d \in Docs : \A n \in Names :
        LET listed == {a \in Range(getCurrentAssets(assets, d)) : a.originalFileName = n}
        IN \A res \in getAsset(assets, d, n, Undefined) :
              /\ res.kind = "asset" <=> listed # {}
              /\ res.kind = "asset" =>
                    \A a \in listed : a.v = res.asset.v /\ a.fileName = res.asset.fileName

====
